---- MODULE Spec2Model ----
(***************************************************************************)
(* HBDRepo (hbd-sql): the singleton repository over a pooled SQL           *)
(* connection.  The model follows the PostgreSQL class of src/index.ts and *)
(* its published build dist/index.js: the static instance slot, the        *)
(* instance fields pool and poolConfig, the asynchronous query()/connect() *)
(* pair with its suspension points, and the result shaping of the domain   *)
(* operations.  The pg driver is the environment: `new Pool` either        *)
(* returns a handle or throws, and an executed query is answered with a    *)
(* row list or with an error.  DbSpec puts the class in front of a         *)
(* database content, so that the statements of the operations are          *)
(* evaluated; EagerSpec does the same for the eager SQL Server class of    *)
(* unnamed/part_002 (dist/hbd-repo.js).                                    *)
(***************************************************************************)
EXTENDS Integers, Sequences, FiniteSets, Bags, TLC

VARIABLES
  build,     \* which artefact runs: "src" (src/index.ts), "dist" (dist/index.js),
             \* or "mssql" (the eager SQL Server class) under EagerSpec
  db,        \* the content of the database the driver talks to
  instance,  \* HBDRepo.instance: 0 for null, else the index of the object in heap
  heap,      \* the HBDRepo objects constructed so far: [poolConfig, pool]
  pools,     \* the pools `new Pool` has returned: [config, owner]
  calls,     \* the operations in flight, a bag of call records
  last,      \* the call settled by the latest step (NoCall after any other step)
  firstOk,   \* what the first successful getInstance returned, 0 before it
  lastGet    \* the getInstance call made by the latest step (NoGet otherwise)

vars == <<build, db, instance, heap, pools, calls, last, firstOk, lastGet>>

(* ------------------------------ bounds -------------------------------- *)

\* domain operations that can be in flight at the same time
MaxInFlight == 2
\* rows in one driver answer
MaxRows == 2
\* operations recorded in the database, and the largest amount of one
MaxDbRows == 2
MaxAmount == 2

(* --------------------------- value domains ---------------------------- *)

\* which artefact runs: the TypeScript source or the published build
Builds == {"src", "dist"}

\* null as any / undefined
NoConfig == "absent"
\* {} : an object, but without any connection field
EmptyConfig == "empty"
Configs == {NoConfig, EmptyConfig, "cfgA", "cfgB"}
HasConnectionFields(cfg) == cfg \in {"cfgA", "cfgB"}

\* JavaScript truthiness of a configuration value: every object is truthy
TruthyConfig(cfg) == cfg # NoConfig

ListOps == {"deposits", "withdrawals", "interestPayments"}
ScalarOps == {"totalDeposit", "totalWithdrawal", "totalInterest", "interestRate"}
ProjectionOps == {"savingsDetails"}
DomainOps == ListOps \cup ScalarOps \cup ProjectionOps
\* query() is public as well
Ops == DomainOps \cup {"query"}

NoAccount == "-"
Accounts == {"alice", "krios003"}
\* the account used where only the fate of the call matters
OneAccount == {"alice"}
ArgsOf(op, A) == IF op = "interestRate" THEN {NoAccount} ELSE A

\* column values as the driver hands them over
NullV == [t |-> "null", n |-> 0]
UndefV == [t |-> "undefined", n |-> 0]
Num(n) == [t |-> "num", n |-> n]
\* a numeric column rendered as a non-empty string, e.g. '1.000'
Str(n) == [t |-> "str", n |-> n]
ColVals == {NullV, Num(0), Num(1), Num(-1), Str(0)}
Rows == [col : ColVals]

RECURSIVE SeqsUpTo(_, _)
SeqsUpTo(S, n) ==
  IF n = 0 THEN {<<>>}
  ELSE LET shorter == SeqsUpTo(S, n - 1)
       IN shorter \cup {Append(s, x) : s \in {t \in shorter : Len(t) = n - 1}, x \in S}

RowLists == SeqsUpTo(Rows, MaxRows)
\* the answers used where only the fate of the call matters, not its rows
SomeRowLists == {<<>>, <<[col |-> Num(1)]>>}

\* what a promise settles with
ListVal(rows) == [shape |-> "list", rows |-> rows, v |-> UndefV]
ScalarVal(v) == [shape |-> "scalar", rows |-> <<>>, v |-> v]
RowVal(r) == [shape |-> "row", rows |-> <<r>>, v |-> UndefV]
EmptyObj == [shape |-> "emptyobj", rows |-> <<>>, v |-> UndefV]
UndefinedVal == [shape |-> "undefined", rows |-> <<>>, v |-> UndefV]

NoErr == "none"
ConfigErr == "PostgreSQL configuration is required to initialize Database."
GenericErr == "Failed to execute query."
\* errors thrown by `new Pool(config)`
CtorErrors == {"pool constructor error"}
\* errors a pool.query() promise rejects with
DriverErrors == {"syntax error", "connection refused"}

NoDrv == [kind |-> "none", rows |-> <<>>, err |-> NoErr]
NoOut == [kind |-> "none", val |-> UndefinedVal, err |-> NoErr]
Resolved(val) == [kind |-> "resolved", val |-> val, err |-> NoErr]
Rejected(e) == [kind |-> "rejected", val |-> UndefinedVal, err |-> e]

\* afterFailure: the call was invoked right after a domain operation on the
\* same instance had been rejected with the generic error
NoCall ==
  [pc |-> "none", inst |-> 0, op |-> "query", acct |-> NoAccount,
   poolSeen |-> 0, made |-> 0, connErr |-> NoErr, attempts |-> 0, execs |-> 0,
   handle |-> 0, template |-> "", params |-> <<>>, drv |-> NoDrv, out |-> NoOut,
   afterFailure |-> FALSE]

\* prev: the error of the getInstance call made by the step before, if any
NoGet == [called |-> FALSE, cfg |-> NoConfig, before |-> 0, res |-> 0, err |-> NoErr, prev |-> NoErr]

(* --------------------- src/index.ts, dist/index.js -------------------- *)

\* the query text each operation hands to query(); $1 is the bind placeholder
Template(b, op) ==
  CASE op = "deposits" ->
         "transfer_to_savings WHERE (from_account = $1 or to_account = $1) AND symbol = 'HBD' ORDER BY timestamp"
    [] op = "withdrawals" ->
         IF b = "src"
         THEN "fill_transfer_from_savings WHERE from_account = $1 AND symbol = 'HBD' ORDER BY timestamp"
         ELSE "fill_transfer_from_savings WHERE from_account = 'krios003' AND symbol = 'HBD' ORDER BY timestamp"
    [] op = "totalDeposit" ->
         "SUM(amount) transfer_to_savings WHERE (from_account = $1 or to_account = $1) AND symbol = 'HBD'"
    [] op = "totalWithdrawal" ->
         "SUM(amount) fill_transfer_from_savings WHERE from_account = $1 AND symbol = 'HBD'"
    [] op = "totalInterest" -> "SUM(interest) interest WHERE owner = $1"
    [] op = "interestRate" -> "ROUND(hbd_interest_rate / 100, 2) dynamic_global_properties LIMIT 1"
    [] op = "savingsDetails" ->
         IF b = "src"
         THEN "balances WHERE account_name = $1, last_payment WHERE owner = $1"
         ELSE "balances WHERE account_name = $1, last_payment WHERE owner = 'krios003'"
    [] op = "interestPayments" -> "interest WHERE owner = $1"
    [] OTHER -> "caller template"

\* a template literal that splices the argument into the text
QueryTextInterpolated(b, op, acct) == Template(b, op) \o acct

\* the queryString of operation op called with acct: a literal without any
\* ${...} substitution
QueryText(b, op, acct) == Template(b, op)

\* the bind values: [username], and none for interestRate()
Params(op, acct) == IF op = "interestRate" THEN <<>> ELSE <<acct>>

\* JavaScript falsiness of a column value (the strings of ColVals are non-empty)
Falsy(v) == v.t \in {"null", "undefined"} \/ (v.t = "num" /\ v.n = 0)

\* query() returning the first row only
QueryFirstRowOnly(rows) == IF Len(rows) = 0 THEN <<>> ELSE <<rows[1]>>

\* query(): return result.rows
QueryReturn(rows) == rows

\* query() letting the driver's error through
QueryCatchRethrow(e) == e

\* query(): catch (error) { throw new Error('Failed to execute query.') }
QueryCatch(e) == GenericErr

\* result[0]?.total_amount, the `|| 0` forgotten
ScalarNoDefault(rows) == IF Len(rows) = 0 THEN UndefV ELSE rows[1].col

\* result[0]?.total_amount || 0
ScalarOf(rows) ==
  LET first == IF Len(rows) = 0 THEN UndefV ELSE rows[1].col
  IN IF Falsy(first) THEN Num(0) ELSE first

\* result[0], the `|| {}` forgotten
ProjectionNoDefault(rows) == IF Len(rows) = 0 THEN UndefinedVal ELSE RowVal(rows[1])

\* result[0] || {}   (a row is an object, hence truthy)
ProjectionOf(rows) == IF Len(rows) = 0 THEN EmptyObj ELSE RowVal(rows[1])

\* interestPayments: the source returns the rows, the build result[0] || {}
InterestPaymentsOf(b, rows) == IF b = "src" THEN ListVal(rows) ELSE ProjectionOf(rows)

\* what a domain operation resolves to, given what query() returned
Shape(b, op, rows) ==
  CASE op \in ScalarOps -> ScalarVal(ScalarOf(rows))
    [] op \in ProjectionOps -> ProjectionOf(rows)
    [] op = "interestPayments" -> InterestPaymentsOf(b, rows)
    [] OTHER -> ListVal(rows)

\* a constructor without the guard (as the eager mssql class has it)
CtorNeverThrows(cfg) == FALSE

\* constructor: if (!poolConfig) throw
CtorThrows(cfg) == ~TruthyConfig(cfg)

\* getInstance constructing on every call
SlotEmptyAlways == TRUE

\* getInstance: if (!HBDRepo.instance)
SlotEmpty == instance = 0

\* query() and connect() without their guard
PoolUnsetAlways(i) == TRUE

\* query() going to the driver without looking at this.pool
PoolUnsetNever(i) == FALSE

\* a connect() that also replaces a pool that has been ended
PoolUnsetOrEnded(i) == heap[i].pool = 0 \/ ~pools[heap[i].pool].open

\* query() and connect(): if (!this.pool)
PoolUnset(i) == heap[i].pool = 0

\* new Pool() called without the stored configuration
NewPoolNoConfig(i) == [config |-> EmptyConfig, owner |-> i, open |-> TRUE]

\* connect(): new Pool(this.poolConfig); a pool is open until someone ends it
NewPool(i) == [config |-> heap[i].poolConfig, owner |-> i, open |-> TRUE]

\* connect() building the pool without keeping it in this.pool
StorePoolDropped(i, h) == heap

\* connect(): this.pool = new Pool(this.poolConfig), h being the new handle
StorePool(i, h) == [heap EXCEPT ![i].pool = h]

\* `await this.connect()` moved inside the try block of query()
ConnectWrapped(e) == GenericErr

\* connect(): catch (err) { throw err }, and query() awaits connect() before
\* its try block, so the error reaches the caller as it is
ConnectRethrow(e) == e

(* ------------------------------ state --------------------------------- *)

(* ------------------------ the database content ------------------------ *)

Symbols == {"HBD", "HIVE"}
Amounts == 1..MaxAmount

\* the operations recorded on the chain, in the order of their ids; each kind
\* is one table of the hafsql schema (the owner of an interest payment is its
\* from_account)
TransferToSavingsOps ==
  [kind : {"transfer_to_savings"}, from_account : Accounts, to_account : Accounts,
   symbol : Symbols, amount : Amounts]
FillTransferFromSavingsOps ==
  [kind : {"fill_transfer_from_savings"}, from_account : Accounts, to_account : Accounts,
   symbol : Symbols, amount : Amounts]
InterestOps ==
  {o \in [kind : {"interest"}, from_account : Accounts, to_account : Accounts,
          symbol : {"HBD"}, amount : Amounts] : o.to_account = o.from_account}
ChainOps == TransferToSavingsOps \cup FillTransferFromSavingsOps \cup InterestOps

\* hafsql.balances holds at most one row per account
BalanceRows == [account_name : Accounts, hbd : {1}, hbd_savings : {100}]
\* hafsql.dynamic_global_properties: hbd_interest_rate in hundredths of a percent
PropTables == {<<1500>>}

EmptyDb == [ledger |-> <<>>, balances |-> <<>>, props |-> <<>>]
Dbs == [ledger : SeqsUpTo(ChainOps, MaxDbRows), balances : SeqsUpTo(BalanceRows, 1),
        props : PropTables]

Ids(d) == 1..Len(d.ledger)

\* the ids of set S in ascending order: hafsql.get_timestamp(id) grows with
\* id, so this is also ORDER BY timestamp ASC
Chosen(d, S) == SelectSeq([i \in Ids(d) |-> i], LAMBDA i : i \in S)

\* SELECT *, hafsql.get_timestamp(id) AS timestamp on a transfer table; the
\* driver hands a numeric column over as a string
TransferRow(d, i) ==
  [id |-> i, from_account |-> d.ledger[i].from_account,
   to_account |-> d.ledger[i].to_account, amount |-> Str(d.ledger[i].amount),
   symbol |-> d.ledger[i].symbol, timestamp |-> i]

TransferRows(d, ids) == [k \in 1..Len(ids) |-> TransferRow(d, ids[k])]

\* SELECT *, hafsql.get_timestamp(id) AS timestamp on the interest table
InterestRow(d, i) ==
  [id |-> i, owner |-> d.ledger[i].from_account,
   interest |-> Str(d.ledger[i].amount), timestamp |-> i]

InterestRows(d, ids) == [k \in 1..Len(ids) |-> InterestRow(d, ids[k])]

RECURSIVE SumAmounts(_, _)
SumAmounts(d, ids) ==
  IF ids = <<>> THEN 0 ELSE d.ledger[Head(ids)].amount + SumAmounts(d, Tail(ids))

\* SELECT SUM(...): one row, its column NULL when no row is selected
Aggregate(d, ids) ==
  <<[col |-> IF ids = <<>> THEN NullV ELSE Str(SumAmounts(d, ids))]>>

\* ROUND(CAST(hbd_interest_rate AS numeric) / 100, 2) of the latest row
LatestRate(d) == IF d.props = <<>> THEN NullV ELSE Str(d.props[Len(d.props)] \div 100)

\* the row savingsDetails selects for balance row bal; the last payment is the
\* latest interest operation of payer. One operation is recorded per day and
\* NOW() is the day of the last one. estimated_interest counts hundredths:
\* ROUND(hbd_savings * hbd_interest / 12.0 / 30.0 * days / 100, 2)
SavingsRow(d, bal, payer) ==
  LET pays == Chosen(d, {i \in Ids(d) : d.ledger[i].kind = "interest"
                                          /\ d.ledger[i].from_account = payer})
      days == IF pays = <<>> THEN NullV ELSE Str(Len(d.ledger) - pays[Len(pays)])
      rate == LatestRate(d)
  IN [hbd |-> Str(bal.hbd), hbd_savings |-> Str(bal.hbd_savings),
      last_payment_days |-> days,
      estimated_interest |->
        IF days = NullV \/ rate = NullV THEN NullV
        ELSE Str((2 * bal.hbd_savings * rate.n * days.n * 100 + 36000) \div 72000)]

\* what the database answers to a statement of the class, given the bind values
Execute(text, params, d) ==
  LET p == IF params = <<>> THEN NoAccount ELSE params[1]
      Deposit == {i \in Ids(d) : /\ d.ledger[i].kind = "transfer_to_savings"
                                 /\ (d.ledger[i].from_account = p \/ d.ledger[i].to_account = p)
                                 /\ d.ledger[i].symbol = "HBD"}
      Withdrawal == {i \in Ids(d) : /\ d.ledger[i].kind = "fill_transfer_from_savings"
                                    /\ d.ledger[i].from_account = p
                                    /\ d.ledger[i].symbol = "HBD"}
      WithdrawalOfLiteral == {i \in Ids(d) : /\ d.ledger[i].kind = "fill_transfer_from_savings"
                                             /\ d.ledger[i].from_account = "krios003"
                                             /\ d.ledger[i].symbol = "HBD"}
      Interest == {i \in Ids(d) : d.ledger[i].kind = "interest" /\ d.ledger[i].from_account = p}
      Balances == SelectSeq(d.balances, LAMBDA b : b.account_name = p)
  IN CASE text = Template("src", "deposits") -> TransferRows(d, Chosen(d, Deposit))
       [] text = Template("src", "withdrawals") -> TransferRows(d, Chosen(d, Withdrawal))
       [] text = Template("dist", "withdrawals") ->
            TransferRows(d, Chosen(d, WithdrawalOfLiteral))
       [] text = Template("src", "totalDeposit") -> Aggregate(d, Chosen(d, Deposit))
       [] text = Template("src", "totalWithdrawal") -> Aggregate(d, Chosen(d, Withdrawal))
       [] text = Template("src", "totalInterest") -> Aggregate(d, Chosen(d, Interest))
       [] text = Template("src", "interestRate") ->
            IF d.props = <<>> THEN <<>> ELSE <<[col |-> LatestRate(d)]>>
       [] text = Template("src", "savingsDetails") ->
            [k \in 1..Len(Balances) |-> SavingsRow(d, Balances[k], p)]
       [] text = Template("dist", "savingsDetails") ->
            [k \in 1..Len(Balances) |-> SavingsRow(d, Balances[k], "krios003")]
       [] text = Template("src", "interestPayments") -> InterestRows(d, Chosen(d, Interest))

(* ------------------------------ the class ------------------------------ *)

\* the class as loaded: no instance, nothing in flight
Fresh ==
  /\ instance = 0
  /\ heap = <<>>
  /\ pools = <<>>
  /\ calls = EmptyBag
  /\ last = NoCall
  /\ firstOk = 0
  /\ lastGet = NoGet

\* the driver's answers are inputs of Spec and SeqSpec: the content plays no part
Init ==
  /\ build \in Builds
  /\ db = EmptyDb
  /\ Fresh

InFlight == BagToSet(calls)

\* getInstance assigning the slot before the configuration is validated
ConstructThenValidate(cfg) ==
  [err |-> IF CtorThrows(cfg) THEN ConfigErr ELSE NoErr,
   heap |-> Append(heap, [poolConfig |-> cfg, pool |-> 0]),
   instance |-> Len(heap) + 1]

\* a constructor that builds the pool at once
ConstructEager(cfg) ==
  IF CtorThrows(cfg)
  THEN [err |-> ConfigErr, heap |-> heap, instance |-> instance]
  ELSE [err |-> NoErr,
        heap |-> Append(heap, [poolConfig |-> cfg, pool |-> Len(pools) + 1]),
        instance |-> Len(heap) + 1]

\* HBDRepo.instance = new HBDRepo(cfg): a throwing constructor leaves the
\* slot as it was; otherwise the new object holds cfg and no pool
Construct(cfg) ==
  IF CtorThrows(cfg)
  THEN [err |-> ConfigErr, heap |-> heap, instance |-> instance]
  ELSE [err |-> NoErr,
        heap |-> Append(heap, [poolConfig |-> cfg, pool |-> 0]),
        instance |-> Len(heap) + 1]

\* HBDRepo.getInstance(cfg), a synchronous call
GetInstance(cfg) ==
  /\ IF SlotEmpty
     THEN LET made == Construct(cfg)
          IN /\ heap' = made.heap
             /\ instance' = made.instance
             /\ lastGet' = [called |-> TRUE, cfg |-> cfg, before |-> instance,
                            res |-> IF made.err = NoErr THEN made.instance ELSE 0,
                            err |-> made.err, prev |-> lastGet.err]
             /\ firstOk' = IF firstOk = 0 /\ made.err = NoErr THEN made.instance ELSE firstOk
     ELSE /\ UNCHANGED <<instance, heap>>
          /\ lastGet' = [called |-> TRUE, cfg |-> cfg, before |-> instance,
                         res |-> instance, err |-> NoErr, prev |-> lastGet.err]
          /\ firstOk' = IF firstOk = 0 THEN instance ELSE firstOk
  /\ last' = NoCall
  /\ UNCHANGED <<build, db, pools, calls>>

\* the operation that has just settled on instance i was a domain operation
\* rejected by the catch block of query()
JustFailed(i) ==
  /\ last.pc = "done"
  /\ last.inst = i
  /\ last.op \in DomainOps
  /\ last.out = Rejected(GenericErr)

Started(i, op, acct) ==
  [NoCall EXCEPT !.inst = i, !.op = op, !.acct = acct, !.poolSeen = heap[i].pool,
                 !.afterFailure = JustFailed(i),
                 !.template = QueryText(build, op, acct), !.params = Params(op, acct)]

\* the synchronous part of a domain operation, up to its first await:
\* op(username) -> query(text, [username]) -> connect() when no pool is set,
\* or straight into this.pool.query() when one is
Invoke(i, op, acct) ==
  /\ BagCardinality(calls) < MaxInFlight
  /\ IF PoolUnset(i)
     THEN IF PoolUnset(i)
          THEN \/ /\ pools' = Append(pools, NewPool(i))
                  /\ heap' = StorePool(i, Len(pools) + 1)
                  /\ calls' = calls (+) SetToBag({
                       [Started(i, op, acct) EXCEPT !.pc = "awaitConnect", !.attempts = 1,
                                                    !.made = Len(pools) + 1]})
               \/ \E e \in CtorErrors :
                    /\ calls' = calls (+) SetToBag({
                         [Started(i, op, acct) EXCEPT !.pc = "awaitConnect", !.attempts = 1,
                                                      !.connErr = e]})
                    /\ UNCHANGED <<heap, pools>>
          ELSE /\ calls' = calls (+) SetToBag({
                    [Started(i, op, acct) EXCEPT !.pc = "awaitConnect"]})
               /\ UNCHANGED <<heap, pools>>
     ELSE /\ calls' = calls (+) SetToBag({
               [Started(i, op, acct) EXCEPT !.pc = "executing", !.execs = 1,
                                            !.handle = heap[i].pool]})
          /\ UNCHANGED <<heap, pools>>
  /\ last' = NoCall
  /\ lastGet' = NoGet
  /\ UNCHANGED <<build, db, instance, firstOk>>

\* the promise of call c settles
Settle(c, rec) ==
  /\ last' = [rec EXCEPT !.pc = "done"]
  /\ calls' = calls (-) SetToBag({c})

\* a query() that goes on after connect() only once no other call is running
ResumeWhenAlone(c) ==
  /\ c \in InFlight
  /\ c.pc = "awaitConnect"
  /\ BagCardinality(calls) = 1
  /\ IF c.connErr # NoErr
     THEN Settle(c, [c EXCEPT !.out = Rejected(ConnectRethrow(c.connErr))])
     ELSE /\ calls' = (calls (-) SetToBag({c})) (+) SetToBag({
               [c EXCEPT !.pc = "executing", !.execs = c.execs + 1,
                         !.handle = heap[c.inst].pool]})
          /\ last' = NoCall
  /\ lastGet' = NoGet
  /\ UNCHANGED <<build, db, instance, heap, pools, firstOk>>

\* query() resumes after `await this.connect()`: a rejected connect() is
\* rethrown outside the try block, a fulfilled one leads to this.pool!.query()
Resume(c) ==
  /\ c \in InFlight
  /\ c.pc = "awaitConnect"
  /\ IF c.connErr # NoErr
     THEN Settle(c, [c EXCEPT !.out = Rejected(ConnectRethrow(c.connErr))])
     ELSE /\ calls' = (calls (-) SetToBag({c})) (+) SetToBag({
               [c EXCEPT !.pc = "executing", !.execs = c.execs + 1,
                         !.handle = heap[c.inst].pool]})
          /\ last' = NoCall
  /\ lastGet' = NoGet
  /\ UNCHANGED <<build, db, instance, heap, pools, firstOk>>

\* the driver answers the query of call c with a row list
DriverRows(c, rows) ==
  /\ c \in InFlight
  /\ c.pc = "executing"
  /\ Settle(c, [c EXCEPT
                  !.drv = [kind |-> "rows", rows |-> rows, err |-> NoErr],
                  !.out = Resolved(Shape(build, c.op, QueryReturn(rows)))])
  /\ lastGet' = NoGet
  /\ UNCHANGED <<build, db, instance, heap, pools, firstOk>>

\* a catch block that submits the failed query once more
DriverErrorRetry(c, e) ==
  /\ c \in InFlight
  /\ c.pc = "executing"
  /\ IF c.execs < 2
     THEN /\ calls' = (calls (-) SetToBag({c})) (+) SetToBag({[c EXCEPT !.execs = c.execs + 1]})
          /\ last' = NoCall
     ELSE Settle(c, [c EXCEPT
                       !.drv = [kind |-> "error", rows |-> <<>>, err |-> e],
                       !.out = Rejected(QueryCatch(e))])
  /\ lastGet' = NoGet
  /\ UNCHANGED <<build, db, instance, heap, pools, firstOk>>

\* a catch block that drops the pool handle when a query fails
DriverErrorDropsPool(c, e) ==
  /\ c \in InFlight
  /\ c.pc = "executing"
  /\ Settle(c, [c EXCEPT
                  !.drv = [kind |-> "error", rows |-> <<>>, err |-> e],
                  !.out = Rejected(QueryCatch(e))])
  /\ heap' = [heap EXCEPT ![c.inst].pool = 0]
  /\ lastGet' = NoGet
  /\ UNCHANGED <<build, db, instance, pools, firstOk>>

\* the driver rejects the query of call c
DriverError(c, e) ==
  /\ c \in InFlight
  /\ c.pc = "executing"
  /\ Settle(c, [c EXCEPT
                  !.drv = [kind |-> "error", rows |-> <<>>, err |-> e],
                  !.out = Rejected(QueryCatch(e))])
  /\ lastGet' = NoGet
  /\ UNCHANGED <<build, db, instance, heap, pools, firstOk>>

\* operations overlap freely; the rows of an answer are sampled
Next ==
  \/ \E cfg \in Configs : GetInstance(cfg)
  \/ \E i \in 1..Len(heap), op \in Ops : \E acct \in ArgsOf(op, OneAccount) : Invoke(i, op, acct)
  \/ \E c \in InFlight : Resume(c)
  \/ \E c \in InFlight, rows \in SomeRowLists : DriverRows(c, rows)
  \/ \E c \in InFlight, e \in DriverErrors : DriverError(c, e)

Spec == Init /\ [][Next]_vars

\* one operation after another: the next one is invoked once the previous
\* one has settled; every account and every answer up to MaxRows rows
SeqInvoke(i, op, acct) == calls = EmptyBag /\ Invoke(i, op, acct)

SeqNext ==
  \/ \E cfg \in Configs : GetInstance(cfg)
  \/ \E i \in 1..Len(heap), op \in Ops : \E acct \in ArgsOf(op, Accounts) : SeqInvoke(i, op, acct)
  \/ \E c \in InFlight : Resume(c)
  \/ \E c \in InFlight, rows \in RowLists : DriverRows(c, rows)
  \/ \E c \in InFlight, e \in DriverErrors : DriverError(c, e)

SeqSpec == Init /\ [][SeqNext]_vars

(* ------------------ every request answered in the end ----------------- *)

\* what is fixed when a domain operation is invoked; two calls with the same
\* key go through the same steps
Key(c) ==
  [op |-> c.op, inst |-> c.inst, poolSeen |-> c.poolSeen, made |-> c.made,
   connErr |-> c.connErr, afterFailure |-> c.afterFailure]

\* one operation of each kind of result; all of them run the same query()
LiveOps == {"deposits", "totalDeposit", "savingsDetails"}

\* the keys a call can have: one that found the pool set makes none; one
\* that found none either made the pool or failed to, and follows no failed
\* query, a query needing a pool to fail
Keys ==
  {k \in [op : LiveOps, inst : {1}, poolSeen : {0, 1}, made : {0, 1},
          connErr : {NoErr} \cup CtorErrors, afterFailure : BOOLEAN] :
     IF k.poolSeen = 0
     THEN ~k.afterFailure /\ ((k.made = 1) # (k.connErr # NoErr))
     ELSE k.made = 0 /\ k.connErr = NoErr}

\* the driver settles the promise of this.pool.query() of call c
DriverAnswers(c) ==
  \/ \E rows \in SomeRowLists : DriverRows(c, rows)
  \/ \E e \in DriverErrors : DriverError(c, e)

\* overlapping domain operations on one configuration
LiveNext ==
  \/ GetInstance("cfgA")
  \/ \E i \in 1..Len(heap), op \in LiveOps : \E acct \in ArgsOf(op, OneAccount) : Invoke(i, op, acct)
  \/ \E c \in InFlight : Resume(c)
  \/ \E c \in InFlight : DriverAnswers(c)

\* the event loop runs every continuation that is ready, and the driver
\* answers every request it has been given
LiveFairness ==
  \A k \in Keys :
    /\ WF_vars(\E c \in InFlight : Key(c) = k /\ Resume(c))
    /\ WF_vars(\E c \in InFlight : Key(c) = k /\ DriverAnswers(c))

LiveSpec == Init /\ [][LiveNext]_vars /\ LiveFairness

(* --------------- the pool ended from outside the class ---------------- *)

\* what the driver answers to a query on a pool that has been ended
EndedErr == "Cannot use a pool after calling end on the pool"

\* the teardown of the test suite, once every test has settled:
\* if (hbdSQL.pool) await hbdSQL.pool.end()
PoolEnd(i) ==
  /\ calls = EmptyBag
  /\ heap[i].pool # 0
  /\ pools[heap[i].pool].open
  /\ pools' = [pools EXCEPT ![heap[i].pool].open = FALSE]
  /\ last' = NoCall
  /\ lastGet' = NoGet
  /\ UNCHANGED <<build, db, instance, heap, calls, firstOk>>

\* the pool that call c has submitted its query to is still open
PoolOpen(c) == c.pc = "executing" /\ pools[c.handle].open

\* this.pool.query() on an open pool returns rows
OpenRows(c, rows) == PoolOpen(c) /\ DriverRows(c, rows)

\* this.pool.query() on an open pool fails
OpenError(c, e) == PoolOpen(c) /\ DriverError(c, e)

\* this.pool.query() on an ended pool fails, whatever the query
EndedError(c) == c.pc = "executing" /\ ~pools[c.handle].open /\ DriverError(c, EndedErr)

\* operations one after another, and the teardown at any quiet moment
TeardownNext ==
  \/ \E cfg \in Configs : GetInstance(cfg)
  \/ \E i \in 1..Len(heap), op \in Ops : \E acct \in ArgsOf(op, OneAccount) : SeqInvoke(i, op, acct)
  \/ \E c \in InFlight : Resume(c)
  \/ \E c \in InFlight, rows \in SomeRowLists : OpenRows(c, rows)
  \/ \E c \in InFlight, e \in DriverErrors : OpenError(c, e)
  \/ \E c \in InFlight : EndedError(c)
  \/ \E i \in 1..Len(heap) : PoolEnd(i)

TeardownSpec == Init /\ [][TeardownNext]_vars

(* ----------------- the class in front of a database ------------------- *)

\* the driver answers the query of call c from the content of the database
DbAnswer(c) == DriverRows(c, Execute(c.template, c.params, db))

DbInit ==
  /\ build \in Builds
  /\ db \in Dbs
  /\ Fresh

\* domain operations one after another on a fixed content
DbNext ==
  \/ GetInstance("cfgA")
  \/ \E i \in 1..Len(heap), op \in DomainOps : \E acct \in ArgsOf(op, Accounts) : SeqInvoke(i, op, acct)
  \/ \E c \in InFlight : Resume(c)
  \/ \E c \in InFlight : DbAnswer(c)

DbSpec == DbInit /\ [][DbNext]_vars

(* ------- the eager SQL Server class (unnamed/part_002, dist/hbd-repo.js) ------- *)

\* the artefact that holds this class
EagerBuild == "mssql"

EagerOps == {"deposits", "totalDeposit", "totalInterest", "interestRate", "savingsDetails"}

InitErr == "Database connection failed."
\* this.pool.request() on a pool that is undefined
NoPoolErr == "TypeError: Cannot read properties of undefined (reading 'request')"

\* the value getInstance resolves to: the object at index i
InstanceVal(i) == [shape |-> "instance", rows |-> <<>>, v |-> Num(i)]

\* the query text of each operation; @param1 is the bind placeholder
EagerTemplate(op) ==
  CASE op = "deposits" ->
         "tx_id, type, from, to, amount, timestamp TxTransfers WHERE (from = @param1 OR to = @param1) AND type = 'transfer_to_savings' ORDER BY timestamp"
    [] op = "totalDeposit" ->
         "SUM(amount) TxTransfers WHERE (from = @param1 OR to = @param1) AND type = 'transfer_to_savings'"
    [] op = "totalInterest" -> "SUM(interest) VOInterests WHERE owner = @param1"
    [] op = "interestRate" -> "hbd_interest_rate / 100 DynamicGlobalProperties"
    [] op = "savingsDetails" -> "Accounts WHERE name = @param1"

\* TxTransfers holds the plain transfers beside the transfers to savings
TransferOps ==
  [kind : {"transfer"}, from_account : Accounts, to_account : Accounts,
   symbol : Symbols, amount : Amounts]
TxTransferKinds == {"transfer", "transfer_to_savings"}
EagerChainOps == TransferOps \cup TransferToSavingsOps \cup InterestOps
EagerDbs == [ledger : SeqsUpTo(EagerChainOps, MaxDbRows), balances : SeqsUpTo(BalanceRows, 1),
             props : PropTables]

\* SELECT tx_id, [type], [from], [to], [amount], [timestamp] FROM TxTransfers
TxTransferRow(d, i) ==
  [tx_id |-> i, type |-> d.ledger[i].kind, from |-> d.ledger[i].from_account,
   to |-> d.ledger[i].to_account, amount |-> Num(d.ledger[i].amount), timestamp |-> i]

TxTransferRows(d, ids) == [k \in 1..Len(ids) |-> TxTransferRow(d, ids[k])]

\* SELECT SUM(...) as the SQL Server driver hands it over: a number, or NULL
EagerAggregate(d, ids) ==
  <<[col |-> IF ids = <<>> THEN NullV ELSE Num(SumAmounts(d, ids))]>>

\* the row savingsDetails selects for the Accounts row bal, whose last interest
\* payment is the latest interest operation of the account. One operation is
\* recorded per day and GETDATE() is the day of the last one; the unrounded
\* estimated_interest is kept as the count of 1/3600000
EagerSavingsRow(d, bal) ==
  LET pays == Chosen(d, {i \in Ids(d) : d.ledger[i].kind = "interest"
                                          /\ d.ledger[i].from_account = bal.account_name})
      paid == IF pays = <<>> THEN NullV ELSE Num(pays[Len(pays)])
      days == IF pays = <<>> THEN NullV ELSE Num(Len(d.ledger) - pays[Len(pays)])
  IN [hbd_balance |-> Num(bal.hbd), savings_hbd_balance |-> Num(bal.hbd_savings),
      savings_hbd_last_interest_payment |-> paid,
      last_payment_days |-> days,
      estimated_interest |->
        IF days = NullV \/ d.props = <<>> THEN NullV
        ELSE Num(bal.hbd_savings * d.props[1] * days.n)]

\* what the database answers to a statement of the eager class
ExecuteMssql(text, params, d) ==
  LET p == IF params = <<>> THEN NoAccount ELSE params[1]
      Deposit == {i \in Ids(d) : /\ d.ledger[i].kind \in TxTransferKinds
                                 /\ (d.ledger[i].from_account = p \/ d.ledger[i].to_account = p)
                                 /\ d.ledger[i].kind = "transfer_to_savings"}
      Interest == {i \in Ids(d) : d.ledger[i].kind = "interest" /\ d.ledger[i].from_account = p}
      Balances == SelectSeq(d.balances, LAMBDA b : b.account_name = p)
  IN CASE text = EagerTemplate("deposits") -> TxTransferRows(d, Chosen(d, Deposit))
       [] text = EagerTemplate("totalDeposit") -> EagerAggregate(d, Chosen(d, Deposit))
       [] text = EagerTemplate("totalInterest") -> EagerAggregate(d, Chosen(d, Interest))
       [] text = EagerTemplate("interestRate") ->
            [k \in 1..Len(d.props) |-> [col |-> Num(d.props[k] \div 100)]]
       [] text = EagerTemplate("savingsDetails") ->
            [k \in 1..Len(Balances) |-> EagerSavingsRow(d, Balances[k])]

\* getInstance(sqlConfig) up to its await: an empty slot is filled with a new
\* object before initializePool() starts to connect; a filled slot is returned
\* at once, whatever the state of its pool
EagerGetInstance(cfg) ==
  /\ BagCardinality(calls) < MaxInFlight
  /\ IF SlotEmpty
     THEN /\ heap' = Append(heap, [poolConfig |-> cfg, pool |-> 0])
          /\ instance' = Len(heap) + 1
          /\ calls' = calls (+) SetToBag({[NoCall EXCEPT !.pc = "awaitInit", !.op = "getInstance",
                                                       !.inst = Len(heap) + 1, !.attempts = 1]})
          /\ last' = NoCall
     ELSE /\ last' = [NoCall EXCEPT !.pc = "done", !.op = "getInstance", !.inst = instance,
                                    !.out = Resolved(InstanceVal(instance))]
          /\ UNCHANGED <<heap, instance, calls>>
  /\ lastGet' = NoGet
  /\ UNCHANGED <<build, db, pools, firstOk>>

\* sql.connect fulfilled: initializePool stores the pool, getInstance returns
EagerConnected(c) ==
  /\ c \in InFlight
  /\ c.pc = "awaitInit"
  /\ pools' = Append(pools, NewPool(c.inst))
  /\ heap' = StorePool(c.inst, Len(pools) + 1)
  /\ Settle(c, [c EXCEPT !.made = Len(pools) + 1, !.out = Resolved(InstanceVal(instance))])
  /\ lastGet' = NoGet
  /\ UNCHANGED <<build, db, instance, firstOk>>

\* sql.connect rejected: initializePool throws its own error through getInstance
EagerConnectFailed(c, e) ==
  /\ c \in InFlight
  /\ c.pc = "awaitInit"
  /\ Settle(c, [c EXCEPT !.connErr = e, !.out = Rejected(InitErr)])
  /\ lastGet' = NoGet
  /\ UNCHANGED <<build, db, instance, heap, pools, firstOk>>

EagerStarted(i, op, acct) ==
  [NoCall EXCEPT !.inst = i, !.op = op, !.acct = acct, !.poolSeen = heap[i].pool,
                 !.template = EagerTemplate(op), !.params = Params(op, acct)]

\* a domain operation up to the await in query(): this.pool.request() throws
\* inside the try block when the pool is undefined
EagerInvoke(i, op, acct) ==
  /\ BagCardinality(calls) < MaxInFlight
  /\ IF heap[i].pool = 0
     THEN /\ last' = [EagerStarted(i, op, acct) EXCEPT
                        !.pc = "done", !.out = Rejected(QueryCatch(NoPoolErr))]
          /\ UNCHANGED calls
     ELSE /\ calls' = calls (+) SetToBag({[EagerStarted(i, op, acct) EXCEPT
                                              !.pc = "executing", !.execs = 1,
                                              !.handle = heap[i].pool]})
          /\ last' = NoCall
  /\ lastGet' = NoGet
  /\ UNCHANGED <<build, db, instance, heap, pools, firstOk>>

\* the driver answers the query of call c from the content of the database
EagerAnswer(c) == DriverRows(c, ExecuteMssql(c.template, c.params, db))

EagerInit ==
  /\ build = EagerBuild
  /\ db \in EagerDbs
  /\ Fresh

\* calls made one after another on a fixed content
EagerNext ==
  \/ calls = EmptyBag /\ EagerGetInstance("cfgA")
  \/ \E c \in InFlight : EagerConnected(c)
  \/ \E c \in InFlight, e \in CtorErrors : EagerConnectFailed(c, e)
  \/ \E i \in 1..Len(heap), op \in EagerOps : \E acct \in ArgsOf(op, Accounts) :
        calls = EmptyBag /\ EagerInvoke(i, op, acct)
  \/ \E c \in InFlight : EagerAnswer(c)
  \/ \E c \in InFlight, e \in DriverErrors : DriverError(c, e)

EagerSpec == EagerInit /\ [][EagerNext]_vars

EagerConcInit ==
  /\ build = EagerBuild
  /\ db = EmptyDb
  /\ Fresh

\* getInstance calls and operations overlap freely; the rows of an answer
\* are sampled
EagerConcNext ==
  \/ \E cfg \in {"cfgA", "cfgB"} : EagerGetInstance(cfg)
  \/ \E c \in InFlight : EagerConnected(c)
  \/ \E c \in InFlight, e \in CtorErrors : EagerConnectFailed(c, e)
  \/ \E i \in 1..Len(heap), op \in EagerOps : \E acct \in ArgsOf(op, OneAccount) :
        EagerInvoke(i, op, acct)
  \/ \E c \in InFlight, rows \in SomeRowLists : DriverRows(c, rows)
  \/ \E c \in InFlight, e \in DriverErrors : DriverError(c, e)

EagerConcSpec == EagerConcInit /\ [][EagerConcNext]_vars

(* ------------ the lazy SQL Server class (unnamed/part_002) ------------ *)

\* the artefact that holds this class
LazyBuild == "mssql-lazy"

LazyOps == {"deposits", "withrawals", "totalDeposit", "totalWithdrawal",
            "totalInterest", "interestRate", "savingsDetails"}

LazyConfigErr == "SQL configuration is required to initialize Database."
\* errors connectionPool.connect() rejects with
ConnectErrors == {"ESOCKET"}

\* the query text of each operation; @param1 is the bind placeholder
LazyTemplate(op) ==
  CASE op = "deposits" ->
         "tx_id, type, from, to, amount, timestamp TxTransfers WHERE (from = @param1 OR to = @param1) AND type = 'transfer_to_savings' AND amount_symbol = 'HBD' ORDER BY timestamp"
    [] op = "withrawals" ->
         "VOFillTransferFromSavings WHERE (from = @param1 or to = @param1) AND amount_symbol = 'HBD' ORDER BY timestamp"
    [] op = "totalDeposit" ->
         "SUM(amount) TxTransfers WHERE (from = @param1 OR to = @param1) AND type = 'transfer_to_savings' AND amount_symbol = 'HBD'"
    [] op = "totalWithdrawal" ->
         "SUM(amount) VOFillTransferFromSavings WHERE (from = @param1 or to = @param1) AND amount_symbol = 'HBD'"
    [] op = "totalInterest" -> "SUM(interest) VOInterests WHERE owner = @param1"
    [] op = "interestRate" -> "hbd_interest_rate / 100 DynamicGlobalProperties"
    [] op = "savingsDetails" -> "Accounts WHERE name = @param1"

\* HBDRepo.getInstance(sqlConfig), a synchronous call
LazyGetInstance(cfg) ==
  /\ IF SlotEmpty
     THEN IF CtorThrows(cfg)
          THEN /\ lastGet' = [called |-> TRUE, cfg |-> cfg, before |-> instance, res |-> 0,
                              err |-> LazyConfigErr, prev |-> lastGet.err]
               /\ UNCHANGED <<instance, heap>>
          ELSE /\ heap' = Append(heap, [poolConfig |-> cfg, pool |-> 0])
               /\ instance' = Len(heap) + 1
               /\ lastGet' = [called |-> TRUE, cfg |-> cfg, before |-> instance,
                              res |-> Len(heap) + 1, err |-> NoErr, prev |-> lastGet.err]
     ELSE /\ UNCHANGED <<instance, heap>>
          /\ lastGet' = [called |-> TRUE, cfg |-> cfg, before |-> instance,
                         res |-> instance, err |-> NoErr, prev |-> lastGet.err]
  /\ last' = NoCall
  /\ UNCHANGED <<build, db, pools, calls, firstOk>>

\* a connect() that stands back while another call is connecting
LazyMustConnectOnce(i) ==
  heap[i].pool = 0 /\ ~\E c \in InFlight : c.inst = i /\ c.pc = "connecting"

\* query() and connect(): if (!this.pool)
LazyMustConnect(i) == heap[i].pool = 0

LazyStarted(i, op, acct) ==
  [NoCall EXCEPT !.inst = i, !.op = op, !.acct = acct, !.poolSeen = heap[i].pool,
                 !.template = LazyTemplate(op), !.params = Params(op, acct)]

\* a domain operation up to its first await: with no pool set, connect()
\* makes a ConnectionPool of its own and awaits its connect(); with a pool
\* set, query() makes the request on it. (A call that found no pool but did
\* not connect goes on to this.pool!.request() on null.)
LazyInvoke(i, op, acct) ==
  /\ BagCardinality(calls) < MaxInFlight
  /\ IF heap[i].pool = 0
     THEN IF LazyMustConnect(i)
          THEN /\ calls' = calls (+) SetToBag({[LazyStarted(i, op, acct) EXCEPT
                                                   !.pc = "connecting", !.attempts = 1]})
               /\ last' = NoCall
          ELSE /\ last' = [LazyStarted(i, op, acct) EXCEPT
                             !.pc = "done", !.out = Rejected(QueryCatch(NoPoolErr))]
               /\ UNCHANGED calls
     ELSE /\ calls' = calls (+) SetToBag({[LazyStarted(i, op, acct) EXCEPT
                                              !.pc = "executing", !.execs = 1,
                                              !.handle = heap[i].pool]})
          /\ last' = NoCall
  /\ lastGet' = NoGet
  /\ UNCHANGED <<build, db, instance, heap, pools, firstOk>>

\* connectionPool.connect() fulfilled: connect() stores the pool of this call
\* in this.pool, whatever is there, and query() makes its request on it
LazyConnected(c) ==
  /\ c \in InFlight
  /\ c.pc = "connecting"
  /\ pools' = Append(pools, NewPool(c.inst))
  /\ heap' = StorePool(c.inst, Len(pools) + 1)
  /\ calls' = (calls (-) SetToBag({c})) (+) SetToBag({
        [c EXCEPT !.pc = "executing", !.made = Len(pools) + 1, !.execs = 1,
                  !.handle = Len(pools) + 1]})
  /\ last' = NoCall
  /\ lastGet' = NoGet
  /\ UNCHANGED <<build, db, instance, firstOk>>

\* connectionPool.connect() rejected: connect() rethrows and query(), which
\* awaits it before its try block, rejects with that error
LazyConnectFailed(c, e) ==
  /\ c \in InFlight
  /\ c.pc = "connecting"
  /\ Settle(c, [c EXCEPT !.connErr = e, !.out = Rejected(ConnectRethrow(e))])
  /\ lastGet' = NoGet
  /\ UNCHANGED <<build, db, instance, heap, pools, firstOk>>

LazyInit ==
  /\ build = LazyBuild
  /\ db = EmptyDb
  /\ Fresh

\* operations overlap freely; the rows of an answer are sampled
LazyNext ==
  \/ \E cfg \in {NoConfig, "cfgA"} : LazyGetInstance(cfg)
  \/ \E i \in 1..Len(heap), op \in LazyOps : \E acct \in ArgsOf(op, OneAccount) :
        LazyInvoke(i, op, acct)
  \/ \E c \in InFlight : LazyConnected(c)
  \/ \E c \in InFlight, e \in ConnectErrors : LazyConnectFailed(c, e)
  \/ \E c \in InFlight, rows \in SomeRowLists : DriverRows(c, rows)
  \/ \E c \in InFlight, e \in DriverErrors : DriverError(c, e)

LazySpec == LazyInit /\ [][LazyNext]_vars

(* ---------------------------- properties ------------------------------ *)

\* C1: every getInstance call that returns, whatever its config, returns the
\* instance the first successful call returned.
C1_Singleton ==
  (lastGet.called /\ lastGet.err = NoErr)
    => (lastGet.res # 0 /\ lastGet.res = firstOk /\ lastGet.res = instance)

\* a call without config, made after the first success, returned that instance
C1_Witness ==
  /\ lastGet.called
  /\ lastGet.before # 0
  /\ lastGet.cfg = NoConfig
  /\ lastGet.res = firstOk

\* C2 as stated: with no instance yet, an absent config and a config without
\* connection fields both end in the configuration error, and no instance is
\* returned.
C2_AbsentOrInvalidRejected ==
  (lastGet.called /\ lastGet.before = 0 /\ ~HasConnectionFields(lastGet.cfg))
    => (lastGet.err = ConfigErr /\ lastGet.res = 0)

\* C2 amended: with no instance yet, an absent config ends in the
\* configuration error, no instance is returned and the slot stays empty; a
\* config object without connection fields is accepted and stored.
C2_AbsentRejected ==
  /\ (lastGet.called /\ lastGet.before = 0 /\ lastGet.cfg = NoConfig)
       => (lastGet.err = ConfigErr /\ lastGet.res = 0 /\ instance = 0 /\ heap = <<>>)
  /\ (lastGet.called /\ lastGet.before = 0 /\ lastGet.cfg = EmptyConfig)
       => (lastGet.err = NoErr /\ lastGet.res = instance /\ instance # 0
           /\ heap[instance].poolConfig = EmptyConfig)

C2_Witness ==
  /\ lastGet.called
  /\ lastGet.before = 0
  /\ lastGet.cfg = NoConfig
  /\ lastGet.err = ConfigErr

\* the pools built for instance i
PoolsOf(i) == {h \in 1..Len(pools) : pools[h].owner = i}

\* the calls in flight and the one that has just settled
Observed == InFlight \cup (IF last.pc = "done" THEN {last} ELSE {})

\* C3: operations run one after another build at most one pool per instance;
\* an operation invoked when the pool is set makes no pool and executes on
\* the handle it found.
C3_OneCreationInSequence ==
  /\ \A i \in 1..Len(heap) : Cardinality(PoolsOf(i)) <= 1
  /\ \A c \in Observed :
       c.poolSeen # 0 =>
         /\ c.attempts = 0
         /\ c.made = 0
         /\ c.execs = 1
         /\ c.handle = c.poolSeen
         /\ c.handle \in PoolsOf(c.inst)

\* an operation invoked after an earlier one had settled executes on the pool
\* that one had built
C3_Witness ==
  /\ Len(pools) = 1
  /\ \E c \in InFlight : c.poolSeen = 1 /\ c.pc = "executing" /\ c.handle = 1
  /\ BagCardinality(calls) = 1

\* C4: however the operations in flight on an instance interleave, at most
\* one pool is built for it, at most one call in flight has built one, and
\* all queries in execution run on the same handle.
C4_OnePoolUnderInterleaving ==
  /\ \A i \in 1..Len(heap) : Cardinality(PoolsOf(i)) <= 1
  /\ BagCardinality([c \in {d \in InFlight : d.made # 0} |-> calls[c]]) <= 1
  /\ \A c, d \in InFlight :
       (c.inst = d.inst /\ c.execs > 0 /\ d.execs > 0) => (c.handle = d.handle /\ c.handle # 0)

\* two operations in flight at once on one instance: the first built the pool
\* and still awaits connect(), the second already executes on that pool
C4_Witness ==
  \E c, d \in InFlight :
    /\ c.pc = "awaitConnect" /\ c.made # 0 /\ c.poolSeen = 0
    /\ d.pc = "executing" /\ d.inst = c.inst /\ d.handle = c.made

\* the latest step settled an operation of the set ops whose query the driver
\* answered with rows
Answered(ops) == last.pc = "done" /\ last.op \in ops /\ last.drv.kind = "rows"

\* C5: a scalar operation resolves to 0 when the answer has no row or a null
\* aggregate column in its first row, and to the first row's column otherwise,
\* whatever the other rows hold.
C5_ScalarDefaults ==
  Answered(ScalarOps) =>
    LET rows == last.drv.rows
        expected == IF rows = <<>> THEN Num(0)
                    ELSE IF rows[1].col = NullV THEN Num(0)
                    ELSE rows[1].col
    IN /\ last.out = Resolved(ScalarVal(expected))
       /\ last.out.val.v.t \notin {"null", "undefined"}

\* totalInterest answered with a null first row and a second row: 0
C5_Witness ==
  /\ Answered({"totalInterest"})
  /\ Len(last.drv.rows) = 2
  /\ last.drv.rows[1].col = NullV
  /\ last.drv.rows[2].col = Num(1)
  /\ last.out = Resolved(ScalarVal(Num(0)))

\* C6: savingsDetails resolves to {} when the answer has no row and to the
\* first row otherwise, never to null or undefined.
C6_ProjectionDefault ==
  Answered({"savingsDetails"}) =>
    /\ last.out.kind = "resolved"
    /\ last.out.val.shape \in {"emptyobj", "row"}
    /\ last.drv.rows = <<>> => last.out.val = EmptyObj
    /\ last.drv.rows # <<>> => last.out.val = RowVal(Head(last.drv.rows))

C6_Witness ==
  /\ Answered({"savingsDetails"})
  /\ last.drv.rows = <<>>
  /\ last.out = Resolved(EmptyObj)

\* C7: when the driver fails the query, the operation, whichever it is,
\* rejects with the generic error, the same for every driver error.
C7_ErrorPropagation ==
  (last.pc = "done" /\ last.drv.kind = "error") =>
    /\ last.drv.err \in DriverErrors
    /\ last.out = Rejected(GenericErr)
    /\ last.execs = 1

C7_Witness ==
  /\ last.pc = "done"
  /\ last.op = "savingsDetails"
  /\ last.drv = [kind |-> "error", rows |-> <<>>, err |-> "connection refused"]
  /\ last.out = Rejected(GenericErr)

\* a call whose `new Pool` threw enters the bag in this step
CtorThrewNow(c) == c.connErr # NoErr /\ CopiesIn(c, calls') > CopiesIn(c, calls)

\* C8, the outcome: a call whose pool construction threw made that one attempt
\* only, built and executed nothing, and rejects with the constructor's error,
\* which is not the generic one; a call that finds no pool makes an attempt.
C8_FailedCallOutcome ==
  \A c \in Observed :
    /\ c.connErr # NoErr =>
         /\ c.attempts = 1 /\ c.made = 0 /\ c.execs = 0 /\ c.handle = 0
         /\ c.connErr \in CtorErrors /\ c.connErr # GenericErr
         /\ c.pc = "done" => (c.out = Rejected(c.connErr) /\ c.drv = NoDrv)
    /\ c.poolSeen = 0 => c.attempts = 1

\* C8, the step: the step in which the construction throws leaves the pool
\* field of the instance unset and builds no pool.
C8_FailedStepLeavesPoolUnset ==
  \A c \in BagToSet(calls') :
    CtorThrewNow(c) => (heap[c.inst].pool = 0 /\ heap' = heap /\ pools' = pools)

C9_RowListPassThrough ==
  Answered({"query", "deposits", "withdrawals"}) =>
    last.out = Resolved(ListVal(last.drv.rows))

C9_Witness ==
  /\ Answered({"withdrawals"})
  /\ Len(last.drv.rows) = 2
  /\ last.drv.rows[1] # last.drv.rows[2]
  /\ last.out.val.shape = "list"
  /\ last.out.val.rows = last.drv.rows

\* C10: interestPayments resolves to the list of all rows of the answer, in
\* the source and in the published build.
C10_InterestPaymentsIsList ==
  Answered({"interestPayments"}) => last.out = Resolved(ListVal(last.drv.rows))

\* C14: for every domain operation the text handed to the driver is the one
\* the operation hands over for any other account, and the account travels in
\* the bind list alone.
C14_TextIndependentOfAccount ==
  \A c \in Observed :
    c.op \in DomainOps =>
      /\ \A a \in ArgsOf(c.op, Accounts) : c.template = QueryText(build, c.op, a)
      /\ c.params = IF c.acct = NoAccount THEN <<>> ELSE <<c.acct>>

C14_Witness ==
  /\ last.pc = "done" /\ last.op = "totalWithdrawal" /\ last.acct = "krios003"
  /\ last.params = <<"krios003">>
  /\ last.template = Template(build, "totalWithdrawal")

\* C15, the step: a getInstance call made while an instance exists returns that
\* instance and changes neither the slot, nor any object, nor any pool.
C15_LaterCallChangesNothing ==
  (lastGet'.called /\ lastGet'.before # 0) =>
     /\ lastGet'.res = instance /\ lastGet'.err = NoErr
     /\ instance' = instance /\ heap' = heap /\ pools' = pools

\* C15, the stored configuration: the constructing call stores its argument,
\* no step changes a stored configuration, and every pool is built from the
\* configuration stored in its instance.
C15_ConfigStoredOnce ==
  /\ (lastGet.called /\ lastGet.before = 0 /\ lastGet.err = NoErr) =>
        heap[instance].poolConfig = lastGet.cfg
  /\ \A h \in 1..Len(pools) : pools[h].config = heap[pools[h].owner].poolConfig

C15_ConfigKept ==
  \A i \in 1..Len(heap) : i <= Len(heap') /\ heap'[i].poolConfig = heap[i].poolConfig

\* C15: getInstance(cfg) on an existing instance changes nothing, and pools
\* are built from the configuration of the first successful call.
C15_FirstConfigWins ==
  /\ [](C15_ConfigStoredOnce)
  /\ [][C15_LaterCallChangesNothing /\ C15_ConfigKept]_vars

C15_Witness ==
  /\ lastGet.called /\ lastGet.before # 0
  /\ lastGet.cfg = "cfgB" /\ heap[instance].poolConfig = "cfgA"
  /\ Len(pools) = 1 /\ pools[1].config = "cfgA"

\* C16: a getInstance call that throws the configuration error leaves the slot
\* unset, and a call with a valid configuration that follows it constructs an
\* instance holding that configuration.
C16_FailedCallLeavesSlotUnset ==
  /\ (lastGet.called /\ lastGet.err = ConfigErr) =>
        instance = 0 /\ lastGet.before = 0 /\ lastGet.res = 0
  /\ (lastGet.called /\ lastGet.prev = ConfigErr /\ HasConnectionFields(lastGet.cfg)) =>
        /\ lastGet.before = 0 /\ lastGet.err = NoErr
        /\ instance # 0 /\ lastGet.res = instance
        /\ heap[instance].poolConfig = lastGet.cfg

C16_Witness ==
  /\ lastGet.called /\ lastGet.prev = ConfigErr /\ lastGet.cfg = "cfgA"
  /\ lastGet.res = instance /\ instance # 0

\* C17: a getInstance step builds no pool and sets no pool field, a new object
\* starts without a pool, and a pool appears only in a step that invokes an
\* operation.
C17_NoPoolBeforeFirstOperation ==
  /\ lastGet'.called =>
       /\ pools' = pools
       /\ \A i \in 1..Len(heap') :
            heap'[i].pool = IF i <= Len(heap) THEN heap[i].pool ELSE 0
  /\ (pools' # pools \/ \E i \in 1..Len(heap) : heap'[i].pool # heap[i].pool) =>
       /\ ~lastGet'.called
       /\ BagCardinality(calls') = BagCardinality(calls) + 1

C17_LazyCreation == [][C17_NoPoolBeforeFirstOperation]_vars

C17_Witness ==
  /\ lastGet.called /\ lastGet.before # 0 /\ lastGet.prev = NoErr
  /\ pools = <<>> /\ heap[instance].pool = 0 /\ calls = EmptyBag

\* C18, the counts: a call makes at most one pool construction attempt and at
\* most one execute call, and a call that failed at either is rejected.
C18_AtMostOneAttempt ==
  \A c \in Observed :
    /\ c.attempts <= 1 /\ c.execs <= 1
    /\ c.connErr # NoErr => c.execs = 0
    /\ (c.pc = "done" /\ (c.connErr # NoErr \/ c.drv.kind = "error")) =>
          c.out.kind = "rejected"

\* C18, the step: the step that settles a failed call starts nothing: the call
\* leaves the calls in flight and no pool is built.
C18_FailureSettles ==
  (last'.pc = "done" /\ (last'.connErr # NoErr \/ last'.drv.kind = "error")) =>
     /\ BagCardinality(calls') = BagCardinality(calls) - 1
     /\ pools' = pools /\ heap' = heap

\* C18: no automatic retry.
C18_NoRetry == [](C18_AtMostOneAttempt) /\ [][C18_FailureSettles]_vars

C18_Witness ==
  /\ last.pc = "done" /\ last.drv.kind = "error" /\ last.out.kind = "rejected"
  /\ last.attempts = 1 /\ last.execs = 1

\* C20: every scalar operation the driver answers resolves to a number that is
\* at least 0, and interestRate to one that is at most 100.
C20_ScalarsAreNonNegativeNumbers ==
  Answered(ScalarOps) =>
    /\ last.out.kind = "resolved"
    /\ last.out.val.v.t = "num"
    /\ last.out.val.v.n >= 0
    /\ last.op = "interestRate" => last.out.val.v.n <= 100

\* the ids of the fill-transfer-from-savings operations of acct in HBD
WithdrawalIdsOf(acct) ==
  {i \in 1..Len(db.ledger) : /\ db.ledger[i].kind = "fill_transfer_from_savings"
                             /\ db.ledger[i].from_account = acct
                             /\ db.ledger[i].symbol = "HBD"}

\* C11: withdrawals(username) resolves to exactly the fill-transfer-from-savings
\* rows whose from_account is username and whose symbol is HBD, once each.
C11_WithdrawalsOfTheAccount ==
  Answered({"withdrawals"}) =>
    /\ last.out.kind = "resolved" /\ last.out.val.shape = "list"
    /\ LET rows == last.out.val.rows
       IN /\ {rows[k].id : k \in 1..Len(rows)} = WithdrawalIdsOf(last.acct)
          /\ Len(rows) = Cardinality(WithdrawalIdsOf(last.acct))

\* what operation op called with acct resolves to on the current content
ResultOn(op, acct) ==
  Shape(build, op, QueryReturn(Execute(QueryText(build, op, acct), Params(op, acct), db)))

RECURSIVE SumOfRows(_)
SumOfRows(rows) == IF rows = <<>> THEN 0 ELSE Head(rows).amount.n + SumOfRows(Tail(rows))

\* C13: on a fixed content totalDeposit(account) is the sum of the amounts of
\* the rows of deposits(account), and totalWithdrawal(account) that of the rows
\* of withdrawals(account); 0 when there is no row.
C13_TotalsAgreeWithLists ==
  /\ Answered({"totalDeposit"}) =>
       last.out.val.v.n = SumOfRows(ResultOn("deposits", last.acct).rows)
  /\ Answered({"totalWithdrawal"}) =>
       last.out.val.v.n = SumOfRows(ResultOn("withdrawals", last.acct).rows)

\* C19: a savingsDetails result that is not empty carries the fields hbd,
\* hbd_savings, last_payment_date and estimated_interest.
C19_SavingsDetailsFields ==
  (Answered({"savingsDetails"}) /\ last.drv.rows # <<>>) =>
    /\ last.out.val.shape = "row"
    /\ {"hbd", "hbd_savings", "last_payment_date", "estimated_interest"}
         \subseteq DOMAIN last.out.val.rows[1]

\* the operation of the chain a returned transfer row stands for
OpOfRow(r) == db.ledger[IF "tx_id" \in DOMAIN r THEN r.tx_id ELSE r.id]

\* C12: deposits(account) resolves to what the query selected, and every row of
\* it is a transfer to savings in HBD with account as source or destination.
C12_DepositsOnlyHBD ==
  Answered({"deposits"}) =>
    /\ last.out.kind = "resolved" /\ last.out.val.shape = "list"
    /\ last.out.val.rows = last.drv.rows
    /\ \A k \in 1..Len(last.out.val.rows) :
         LET o == OpOfRow(last.out.val.rows[k])
         IN /\ o.kind = "transfer_to_savings"
            /\ o.symbol = "HBD"
            /\ (o.from_account = last.acct \/ o.to_account = last.acct)

\* C21: in the lazy SQL Server class every call that finds the pool unset
\* connects a pool of its own, whatever the other calls in flight do: it
\* makes one attempt, and once connected it holds a pool no other call made.
C21_EachCallConnectsItsOwn ==
  /\ \A c \in Observed :
       c.poolSeen = 0 =>
         /\ c.attempts = 1
         /\ (c.connErr = NoErr /\ c.pc # "connecting") =>
               /\ c.made # 0 /\ c.made <= Len(pools)
               /\ pools[c.made].owner = c.inst
               /\ c.handle = c.made
  /\ \A c \in InFlight :
       c.made # 0 =>
         /\ CopiesIn(c, calls) = 1
         /\ \A d \in InFlight : (d # c) => d.made # c.made

\* two calls in flight on one instance both found the pool unset and each
\* connected a pool
C21_Witness ==
  \E c \in InFlight, d \in InFlight :
    /\ c.inst = d.inst /\ c.poolSeen = 0 /\ d.poolSeen = 0
    /\ c.made # 0 /\ d.made # 0 /\ c.made # d.made
    /\ Cardinality(PoolsOf(c.inst)) = 2

\* C22: a call has executed only on a pool handle that is set, that of its
\* instance, whose pool field is set; a call whose pool creation failed has
\* executed nothing and holds no answer of the driver.
C22_ExecuteOnlyOnPool ==
  \A c \in Observed :
    /\ (c.execs > 0 \/ c.pc = "executing" \/ c.drv.kind # "none") =>
          /\ c.execs > 0
          /\ c.handle # 0 /\ c.handle <= Len(pools)
          /\ pools[c.handle].owner = c.inst
          /\ heap[c.inst].pool # 0
    /\ c.connErr # NoErr => (c.execs = 0 /\ c.handle = 0 /\ c.drv.kind = "none")

\* a call that found no pool is executing on the pool that was made for it
C22_Witness ==
  \E c \in InFlight :
    c.pc = "executing" /\ c.poolSeen = 0 /\ c.handle # 0 /\ c.handle = heap[c.inst].pool

\* a getInstance promise has just resolved
GetInstanceResolved ==
  last.pc = "done" /\ last.op = "getInstance" /\ last.out.kind = "resolved"

\* the initialisation of instance i is still awaited by some getInstance call
InitPending(i) == \E c \in InFlight : c.pc = "awaitInit" /\ c.inst = i

\* C23: the instance a getInstance promise of the eager class resolves to has
\* an initialised pool, however many getInstance calls are in flight.
C23_ResolvedInstanceHasPool ==
  GetInstanceResolved =>
    /\ last.out.val.shape = "instance"
    /\ heap[last.out.val.v.n].pool # 0

\* C24: once the initialisation of the eager class has failed and no other is
\* under way, a getInstance call does not resolve to the instance left
\* without a pool.
C24_NoInstanceWithoutPoolAfterFailure ==
  (GetInstanceResolved /\ ~InitPending(last.out.val.v.n)) =>
    heap[last.out.val.v.n].pool # 0

(* ------------------------------- C25 ---------------------------------- *)

\* a domain operation invoked on an instance whose pool has been ended
AfterEnd(c) ==
  /\ c.op \in DomainOps
  /\ c.poolSeen # 0
  /\ ~pools[c.poolSeen].open

\* C25: the connection state only moves one way. The class never clears or
\* replaces the pool handle of an instance and never ends a pool itself (a
\* step that ends a pool starts, resumes and settles no call and leaves every
\* object alone); an instance that holds a pool gets no second one; and every
\* domain operation invoked on an instance whose pool has been ended from
\* outside makes no pool, submits its query to the ended pool and rejects
\* with the generic query-execution error.
C25_OneWayConnection ==
  /\ [](\A c \in Observed :
          AfterEnd(c) =>
            /\ c.made = 0 /\ c.attempts = 0
            /\ c.handle = c.poolSeen
            /\ heap[c.inst].pool = c.poolSeen
            /\ Len(pools) = 1
            /\ c.pc = "done" => c.out = Rejected(GenericErr))
  /\ [][/\ \A i \in 1..Len(heap) :
             heap[i].pool # 0 =>
               /\ heap'[i].pool = heap[i].pool
               /\ Len(pools') = Len(pools)
        /\ \A h \in 1..Len(pools) :
             /\ ~pools[h].open => ~pools'[h].open
             /\ (pools[h].open /\ ~pools'[h].open) =>
                  (calls' = calls /\ heap' = heap /\ instance' = instance
                   /\ last' = NoCall)]_vars

\* a domain operation invoked after the teardown has been rejected with the
\* generic error, the only pool ever made being the ended one
C25_Witness ==
  /\ last.pc = "done"
  /\ AfterEnd(last)
  /\ last.out = Rejected(GenericErr)
  /\ last.drv.err = EndedErr
  /\ Len(pools) = 1
  /\ heap[last.inst].pool = 1

(* ------------------------------- C26 ---------------------------------- *)

\* C26: a query failure is not sticky. A step in which a domain operation
\* rejects with the generic error leaves the static instance, the stored
\* configuration and the pool handle of every object, and the pools, as they
\* were; and a domain operation invoked after such a failure finds the pool
\* set, makes no new one, and submits its query to that same pool of the
\* same, still current, instance.
C26_FailureNotSticky ==
  /\ [](\A c \in Observed :
          (c.afterFailure /\ c.op \in DomainOps) =>
            /\ c.poolSeen # 0
            /\ c.made = 0 /\ c.attempts = 0 /\ c.connErr = NoErr
            /\ c.execs = 1
            /\ c.handle = c.poolSeen
            /\ heap[c.inst].pool = c.poolSeen
            /\ instance = c.inst)
  /\ [][(/\ last'.pc = "done"
         /\ last'.op \in DomainOps
         /\ last'.out = Rejected(GenericErr)) =>
          (instance' = instance /\ heap' = heap /\ pools' = pools)]_vars

\* a domain operation invoked after a failed one has resolved, on the pool
\* the failed one had used
C26_Witness ==
  /\ last.pc = "done"
  /\ last.op \in DomainOps
  /\ last.afterFailure
  /\ last.out.kind = "resolved"
  /\ last.handle = heap[last.inst].pool
  /\ Len(pools) = 1

(* ------------------------------- C27 ---------------------------------- *)

\* what src/index.ts resolves operation op called with acct to on the
\* current content
SrcResultOn(op, acct) ==
  Shape("src", op, QueryReturn(Execute(QueryText("src", op, acct), Params(op, acct), db)))

\* C27: the running build behaves as src/index.ts does. Every domain
\* operation submits the query text and the bind values that src/index.ts
\* submits for the same operation and account, and resolves to the value,
\* shape included, that src/index.ts resolves to on the same content.
C27_DistEquivalentToSrc ==
  \A c \in Observed :
    c.op \in DomainOps =>
      /\ c.template = QueryText("src", c.op, c.acct)
      /\ c.params = Params(c.op, c.acct)
      /\ c.pc = "done" => c.out = Resolved(SrcResultOn(c.op, c.acct))

(* ------------------------------- C28 ---------------------------------- *)

\* a call with key k is running
Running(k) == \E c \in InFlight : Key(c) = k

\* a call with key k has just resolved or rejected
Settled(k) == last.pc = "done" /\ Key(last) = k /\ last.out.kind \in {"resolved", "rejected"}

\* C28: operations complete without blocking one another. A call in flight
\* never keeps another operation from being invoked and from reaching the
\* driver (no lock is held around a query), and, the driver answering every
\* request in the end, every domain operation that has been invoked
\* eventually resolves or rejects.
C28_EveryOperationSettles ==
  /\ [](\A i \in 1..Len(heap) :
          BagCardinality(calls) < MaxInFlight => ENABLED Invoke(i, "deposits", "alice"))
  /\ [](\A c \in InFlight : c.pc = "executing" => ENABLED DriverAnswers(c))
  /\ [](\A c \in Observed : Key(c) \in Keys)
  /\ \A k \in Keys : Running(k) ~> Settled(k)

\* an operation has settled while another one was still at the driver, on
\* the same pool
C28_Witness ==
  /\ last.pc = "done"
  /\ last.op \in DomainOps
  /\ last.out.kind = "resolved"
  /\ \E c \in InFlight :
       /\ c.pc = "executing"
       /\ c.op \in DomainOps
       /\ c.handle = last.handle

====
